---- MODULE Spec2Model ----
(***************************************************************************)
(* The voice-session websocket handler of backend/ws/voice.py: one         *)
(* connection, its handle_message tasks (one per inbound message, created  *)
(* by asyncio.create_task and interleaved at their await points), the      *)
(* nonlocal response_id and llm_client, and what each step sends on the    *)
(* connection.                                                             *)
(***************************************************************************)
EXTENDS Integers, Sequences, FiniteSets, TLC

\* ------------------------------------------------------------------ bounds
\* inbound messages read from one connection
MaxEvents == 3
\* non-final fragments one draft_response stream yields before its final one
MaxFrags == 1

\* how many calls of the store and requests of the API a run makes
MaxCalls == 2

\* ------------------------------------------------------- python conventions
\* Optional values: None is the empty tuple, a present value x is <<x>>.
None == <<>>
Some(x) == <<x>>

\* dict.get(key, default) on a key that may be missing
Get(opt, default) == IF opt = None THEN default ELSE opt[1]

Min(a, b) == IF a < b THEN a ELSE b

\* s[a:b] of a python string (0-based, end exclusive, clamped to the length)
PySlice(s, a, b) ==
  LET hi == Min(b, Len(s))
  IN IF a + 1 > hi THEN <<>> ELSE SubSeq(s, a + 1, hi)

\* s[a:]
PySliceFrom(s, a) == PySlice(s, a, Len(s))

\* ------------------------------------------------------------------ inputs
KnownNumber == <<"+", "1", "4", "1", "5", "5", "5", "5", "1", "2", "3", "4">>
UnknownNumber == <<"+", "1", "4", "1", "5", "5", "5", "5", "0", "0", "0", "0">>
EmptyNumber == <<>>

\* the from_number of a call_details message: the key may be missing
FromNumbers == {None, Some(EmptyNumber), Some(KnownNumber), Some(UnknownNumber)}

\* the timestamp of a ping_pong message
Timestamps == {Some(1), Some(2)}

\* the response_id of a response_required or reminder_required message: the key
\* may be missing
ResponseIds == {None, Some(1), Some(2)}

Utterance(role, content) == [role |-> role, content |-> content]

\* the transcript of a response_required or reminder_required message
Transcripts == {<<Utterance("user", "hi")>>}

\* the transcript of an update_only message
Updates == {<<Utterance("user", "hello")>>}

Event(type, num, ts, rid, tr) ==
  [interaction_type |-> type, from_number |-> num, timestamp |-> ts,
   response_id |-> rid, transcript |-> tr]

CallDetailsRequest == {Event("call_details", n, None, None, <<>>) : n \in FromNumbers}

PingPongRequest == {Event("ping_pong", None, t, None, <<>>) : t \in Timestamps}

UpdateOnlyRequest == {Event("update_only", None, None, None, tr) : tr \in Updates}

ResponseRequiredRequest ==
  {Event(ty, None, None, r, tr) :
     ty \in {"response_required", "reminder_required"}, r \in ResponseIds, tr \in Transcripts}

RetellRequest ==
  CallDetailsRequest \cup PingPongRequest \cup UpdateOnlyRequest \cup ResponseRequiredRequest

\* ------------------------------------------------------------- data store
\* the users table: formatted phone number -> profile
MockUsers ==
  {[phone |-> <<"+", "1", "-", "4", "1", "5", "-", "5", "5", "5", "-", "1", "2", "3", "4">>,
    name |-> "Alice"]}

\* db_service.get_user: the profile stored under user_id, or None
get_user(user_id) ==
  IF \E u \in MockUsers : u.phone = user_id
  THEN Some(CHOOSE u \in MockUsers : u.phone = user_id)
  ELSE None

\* payment ids: "PAY" and a number
Digits == <<"0", "1", "2", "3", "4", "5", "6", "7", "8", "9">>

IsDigit(c) == \E d \in DOMAIN Digits : Digits[d] = c

DigitValue(c) == (CHOOSE d \in DOMAIN Digits : Digits[d] = c) - 1

\* str(n) of a number n >= 0
RECURSIVE Str(_)
Str(n) == IF n < 10 THEN <<Digits[n + 1]>> ELSE Str(n \div 10) \o <<Digits[(n % 10) + 1]>>

\* f"{n:03d}": at least three digits, zeros in front
ZeroPad3(n) ==
  LET digits == Str(n)
  IN IF Len(digits) >= 3 THEN digits
     ELSE [k \in 1..(3 - Len(digits)) |-> "0"] \o digits

\* f"PAY{n:03d}"
PaymentId(n) == <<"P", "A", "Y">> \o ZeroPad3(n)

\* payment_id.replace("PAY", "")
RECURSIVE RemovePAY(_)
RemovePAY(id) ==
  IF id = <<>> THEN <<>>
  ELSE IF Len(id) >= 3 /\ SubSeq(id, 1, 3) = <<"P", "A", "Y">>
         THEN RemovePAY(SubSeq(id, 4, Len(id)))
         ELSE <<id[1]>> \o RemovePAY(SubSeq(id, 2, Len(id)))

\* int(text) of a text of digits; None stands for the ValueError
RECURSIVE IntOfDigits(_)
IntOfDigits(text) ==
  IF text = <<>> THEN 0
  ELSE 10 * IntOfDigits(SubSeq(text, 1, Len(text) - 1)) + DigitValue(text[Len(text)])

Int_(text) ==
  IF text # <<>> /\ \A k \in DOMAIN text : IsDigit(text[k])
  THEN Some(IntOfDigits(text))
  ELSE None

Max(a, b) == IF a > b THEN a ELSE b

\* the largest of a finite set of numbers and 0
RECURSIVE MaxOf(_)
MaxOf(numbers) ==
  IF numbers = {} THEN 0
  ELSE LET n == CHOOSE n \in numbers : TRUE IN Max(n, MaxOf(numbers \ {n}))

AccountIds == {"ACC001", "ACC002", "ACC003"}

\* DatabaseService.get_account: the account, or None
get_account(store, account_id) ==
  IF account_id \in DOMAIN store.accounts THEN Some(store.accounts[account_id]) ELSE None

\* a variant that counts the payments, as utils.helpers.generate_payment_id does
generate_payment_id_Count(store) == PaymentId(Cardinality(DOMAIN store.payments) + 1)

\* DatabaseService._generate_payment_id: one more than the largest number of
\* the ids that are "PAY" and a number
generate_payment_id_(store) ==
  PaymentId(MaxOf({Int_(RemovePAY(id))[1] :
                     id \in {k \in DOMAIN store.payments : Int_(RemovePAY(k)) # None}}) + 1)

\* utils.helpers.generate_payment_id: one more than the number of payments
generate_payment_id(store) == PaymentId(Cardinality(DOMAIN store.payments) + 1)

\* DatabaseService.update_payment: the payment is stored under the id
update_payment(store, payment_id, payment_data) ==
  [store EXCEPT !.payments =
     [k \in DOMAIN store.payments \cup {payment_id} |->
        IF k = payment_id THEN payment_data ELSE store.payments[k]]]

\* DatabaseService.delete_payment
delete_payment(store, payment_id) ==
  [store EXCEPT !.payments = [k \in DOMAIN store.payments \ {payment_id} |-> store.payments[k]]]

Payment(from_account, to_account, amount, status) ==
  [from_account |-> from_account, to_account |-> to_account, amount |-> amount,
   status |-> status]

\* what a call of the store gives: the store after it and what it returns
\* (None, a value, or the exception it raises)
Returned(store, value) == [store |-> store, value |-> value, raised |-> FALSE]

Raised(store) == [store |-> store, value |-> None, raised |-> TRUE]

\* from_acc["balance"] -= amount, then to_acc["balance"] += amount
Moved(store, from_account, to_account, amount) ==
  LET debited == [store EXCEPT !.accounts[from_account].balance = @ - amount]
  IN [debited EXCEPT !.accounts[to_account].balance = @ + amount]

\* a variant that raises on insufficient funds
transfer_funds_Raises(store, from_account, to_account, amount) ==
  IF get_account(store, from_account) = None \/ get_account(store, to_account) = None
  THEN Returned(store, None)
  ELSE IF store.accounts[from_account].balance < amount
  THEN Raised(store)
  ELSE LET moved == Moved(store, from_account, to_account, amount)
           payment_id == generate_payment_id_(moved)
       IN Returned(update_payment(moved, payment_id,
                                  Payment(from_account, to_account, amount, "Completed")),
                   Some(payment_id))

\* a variant that debits before it looks at the balance
transfer_funds_DebitFirst(store, from_account, to_account, amount) ==
  IF get_account(store, from_account) = None \/ get_account(store, to_account) = None
  THEN Returned(store, None)
  ELSE LET moved == Moved(store, from_account, to_account, amount)
           payment_id == generate_payment_id_(moved)
       IN IF store.accounts[from_account].balance < amount
          THEN Returned(moved, None)
          ELSE Returned(update_payment(moved, payment_id,
                                       Payment(from_account, to_account, amount, "Completed")),
                        Some(payment_id))

\* DatabaseService.transfer_funds
transfer_funds(store, from_account, to_account, amount) ==
  IF get_account(store, from_account) = None \/ get_account(store, to_account) = None
  THEN Returned(store, None)
  ELSE IF store.accounts[from_account].balance < amount
  THEN Returned(store, None)
  ELSE LET moved == Moved(store, from_account, to_account, amount)
           payment_id == generate_payment_id_(moved)
       IN Returned(update_payment(moved, payment_id,
                                  Payment(from_account, to_account, amount, "Completed")),
                   Some(payment_id))

\* ------------------------------------------------------------------- state
VARIABLES
  connected,     \* the websocket is open
  llm_client,    \* 0 (None) or the index in clients of the current LlmService
  response_id,   \* the handler's nonlocal response_id
  clients,       \* every LlmService constructed on this connection
  tasks,         \* the handle_message tasks that have not ended, in creation order
  received,      \* how many messages the main loop has read
  ran,           \* history: the task the last step ran, as the step left it
  sent,          \* history: the messages the last step sent on the connection
  accepted,      \* history: the response_ids for which a stream was started
  delivered,     \* history: the response_ids whose complete event a stream sent
  parked,        \* the same of the other connection, whose handler is not running
  db,            \* db_service.db: the accounts and the payments
  reply,         \* history: the last call of the store or request of the API, and its outcome
  calls          \* history: how many such calls and requests there were

vars ==
  <<connected, llm_client, response_id, clients, tasks, received, ran, sent,
    accepted, delivered, parked, db, reply, calls>>

\* ---------------------------------------------------------------- messages
Message(type, rid, content, complete, ts) ==
  [response_type |-> type, response_id |-> rid, content |-> content,
   content_complete |-> complete, timestamp |-> ts]

ConfigResponse == Message("config", 0, <<>>, FALSE, None)

PingPongResponse(ts) == Message("ping_pong", 0, <<>>, FALSE, ts)

LLMResponse(rid, content, complete) == Message("response", rid, content, complete, None)

\* ------------------------------------------------------------ LlmService
\* a variant that leaves current_agent unset
AgentService_NoAgent == [messages |-> <<>>, current_agent |-> "none"]

\* AgentService.__init__: no messages, the triage agent is current
AgentService == [messages |-> <<>>, current_agent |-> "triage"]

\* LlmService() followed by set_user_info(name, number)
LlmService(name, number) ==
  [user_name |-> name, phone |-> number,
   messages |-> AgentService.messages, current_agent |-> AgentService.current_agent]

\* LlmService.draft_begin_message: the opening response, sequence 0, complete
draft_begin_message(client) == LLMResponse(0, <<"greeting", client.user_name>>, TRUE)

\* a variant that keeps only the messages of the turn
run_Replace(client, messages) == [client EXCEPT !.messages = messages]

\* AgentService.run: the turn's messages are appended to the history
run(client, messages) == [client EXCEPT !.messages = client.messages \o messages]

\* ------------------------------------------------------------------ agents
Agents == {"triage", "accounts", "payments", "applications"}

\* the functions AgentService.__init__ gives to each agent
functions(agent) ==
  CASE agent = "triage" ->
         {"transfer_to_accounts", "transfer_to_payments", "transfer_to_applications"}
    [] agent = "accounts" ->
         {"transfer_to_payments", "handle_account_balance", "retrieve_bank_statement"}
    [] agent = "payments" ->
         {"transfer_back_to_triage", "transfer_funds", "schedule_payment", "cancel_payment"}
    [] agent = "applications" ->
         {"transfer_back_to_triage", "apply_for_loan", "apply_for_credit_card"}
    [] OTHER -> {}

\* the agent transfer methods of AgentService
TransferMethods ==
  {"transfer_to_accounts", "transfer_to_payments", "transfer_to_applications",
   "transfer_back_to_triage"}

transfer_to_accounts(service) == [service EXCEPT !.current_agent = "accounts"]

\* a variant that makes the accounts agent current
transfer_to_payments_Accounts(service) == [service EXCEPT !.current_agent = "accounts"]

transfer_to_payments(service) == [service EXCEPT !.current_agent = "payments"]

transfer_to_applications(service) == [service EXCEPT !.current_agent = "applications"]

\* a variant that also starts the history afresh
transfer_back_to_triage_Fresh(service) ==
  [service EXCEPT !.current_agent = "triage", !.messages = <<>>]

transfer_back_to_triage(service) == [service EXCEPT !.current_agent = "triage"]

\* the service after the call of one of its transfer methods; the method
\* returns the agent it has made current
Transfer(method, service) ==
  CASE method = "transfer_to_accounts" -> transfer_to_accounts(service)
    [] method = "transfer_to_payments" -> transfer_to_payments(service)
    [] method = "transfer_to_applications" -> transfer_to_applications(service)
    [] method = "transfer_back_to_triage" -> transfer_back_to_triage(service)

reset_messages(service) == [service EXCEPT !.messages = <<>>]

reset_agent(service) == [service EXCEPT !.current_agent = "triage"]

get_current_agent_name(service) ==
  CASE service.current_agent = "triage" -> "TriageAgent"
    [] service.current_agent = "accounts" -> "AccountsAgent"
    [] service.current_agent = "payments" -> "PaymentsAgent"
    [] service.current_agent = "applications" -> "ApplicationsAgent"
    [] OTHER -> "UnknownAgent"

\* ------------------------------------------------------------------- tasks
\* req: the message; pc: where the task is; response_id: request_obj.response_id;
\* client: the llm_client the handler used (0: None); n: the events of its stream
\* sent so far; fin: the complete event is among them; newer: a stream with a
\* higher response_id was started after this one (history); agent: the agent
\* the stream's Swarm run is with; action: in ran, the function or method the
\* step called and, in agent, the agent that called it (history)
NewTask(req) ==
  [req |-> req, pc |-> "created", response_id |-> 0, client |-> 0,
   n |-> 0, fin |-> FALSE, newer |-> FALSE, agent |-> "none", action |-> None]

\* the step was the main loop's, not a task's
NoTask == NewTask(Event("none", None, None, None, <<>>))

\* tasks start in the order in which create_task scheduled them
Runnable(i) ==
  /\ i \in DOMAIN tasks
  /\ tasks[i].pc = "created"
  /\ \A j \in 1..(i - 1) : tasks[j].pc # "created"

TypeIs(i, type) == tasks[i].req.interaction_type = type

\* the task has ended (returned, or raised) and is gone
Ended(i) == SubSeq(tasks, 1, i - 1) \o SubSeq(tasks, i + 1, Len(tasks))

\* the locals of this connection's websocket_handler, as the connection id has
\* them while another connection's handler runs
Session(id) ==
  [id |-> id, connected |-> connected, llm_client |-> llm_client,
   response_id |-> response_id, clients |-> clients, tasks |-> tasks,
   received |-> received, ran |-> ran, sent |-> sent, accepted |-> accepted,
   delivered |-> delivered]

\* the store at start-up
MOCK_DATABASE ==
  [accounts |-> [id \in AccountIds |-> [balance |-> 2]],
   payments |-> [id \in {PaymentId(1)} |-> Payment("ACC001", "ACC002", 1, "Completed")]]

NoReply == [op |-> "none"]

InitSession ==
  /\ connected = TRUE
  /\ llm_client = 0
  /\ response_id = 0
  /\ clients = <<>>
  /\ tasks = <<>>
  /\ received = 0
  /\ ran = NoTask
  /\ sent = <<ConfigResponse>>
  /\ accepted = {}
  /\ delivered = {}
  /\ parked = Session(2)

Init ==
  /\ InitSession
  /\ db = MOCK_DATABASE
  /\ reply = NoReply
  /\ calls = 0

\* a variant that awaits the handler of each message before reading the next
Receive_Awaited(req) ==
  /\ connected
  /\ received < MaxEvents
  /\ tasks = <<>>
  /\ received' = received + 1
  /\ tasks' = Append(tasks, NewTask(req))
  /\ ran' = NoTask
  /\ sent' = <<>>
  /\ UNCHANGED <<connected, llm_client, response_id, clients, accepted, delivered>>

\* the main loop reads one message and creates its task
Receive(req) ==
  /\ connected
  /\ received < MaxEvents
  /\ received' = received + 1
  /\ tasks' = Append(tasks, NewTask(req))
  /\ ran' = NoTask
  /\ sent' = <<>>
  /\ UNCHANGED <<connected, llm_client, response_id, clients, accepted, delivered>>

\* "+1-" + from_number[2:5] + "-" + from_number[5:8] + "-" + from_number[8:]
FormatNumber(from_number) ==
  <<"+", "1", "-">> \o PySlice(from_number, 2, 5) \o <<"-">>
    \o PySlice(from_number, 5, 8) \o <<"-">> \o PySliceFrom(from_number, 8)

\* a new LlmService becomes llm_client and its opening message is sent; a send
\* on a closed connection raises, which the handler's except clause logs
Greet(i, client) ==
  /\ clients' = Append(clients, client)
  /\ llm_client' = Len(clients) + 1
  /\ sent' = IF connected THEN <<draft_begin_message(client)>> ELSE <<>>
  /\ ran' = [tasks[i] EXCEPT !.pc = IF connected THEN "done" ELSE "failed",
                             !.client = Len(clients) + 1]

\* the caller's profile was found
UserFound(i, user, formatted_number) ==
  Greet(i, LlmService(user.name, Some(formatted_number)))

\* a variant that only logs the warning
UserNotFound_WarnOnly(i) ==
  /\ ran' = [tasks[i] EXCEPT !.pc = "done", !.client = llm_client]
  /\ sent' = <<>>
  /\ UNCHANGED <<llm_client, clients>>

\* the caller's profile was not found
UserNotFound(i) == Greet(i, LlmService("there", None))

\* interaction_type == "call_details"
CallDetails(i) ==
  /\ Runnable(i)
  /\ TypeIs(i, "call_details")
  /\ LET from_number == Get(tasks[i].req.from_number, EmptyNumber)
         formatted_number == FormatNumber(from_number)
         user == get_user(formatted_number)
     IN IF from_number # EmptyNumber
          THEN IF user # None
                 THEN UserFound(i, user[1], formatted_number)
                 ELSE UserNotFound(i)
          ELSE /\ ran' = [tasks[i] EXCEPT !.pc = "done", !.client = llm_client]
               /\ sent' = <<>>
               /\ UNCHANGED <<llm_client, clients>>
  /\ tasks' = Ended(i)
  /\ UNCHANGED <<connected, response_id, received, accepted, delivered>>

\* a variant that answers only once the LLM client exists
PingPong_NeedsClient(i) ==
  /\ Runnable(i)
  /\ TypeIs(i, "ping_pong")
  /\ sent' = IF connected /\ llm_client # 0
             THEN <<PingPongResponse(tasks[i].req.timestamp)>>
             ELSE <<>>
  /\ ran' = [tasks[i] EXCEPT !.pc = IF connected THEN "done" ELSE "failed",
                             !.client = llm_client]
  /\ tasks' = Ended(i)
  /\ UNCHANGED <<connected, llm_client, response_id, clients, received, accepted, delivered>>

\* interaction_type == "ping_pong"
PingPong(i) ==
  /\ Runnable(i)
  /\ TypeIs(i, "ping_pong")
  /\ sent' = IF connected THEN <<PingPongResponse(tasks[i].req.timestamp)>> ELSE <<>>
  /\ ran' = [tasks[i] EXCEPT !.pc = IF connected THEN "done" ELSE "failed",
                             !.client = llm_client]
  /\ tasks' = Ended(i)
  /\ UNCHANGED <<connected, llm_client, response_id, clients, received, accepted, delivered>>

\* interaction_type == "update_only"
UpdateOnly(i) ==
  /\ Runnable(i)
  /\ TypeIs(i, "update_only")
  /\ sent' = <<>>
  /\ ran' = [tasks[i] EXCEPT !.pc = "done", !.client = llm_client]
  /\ tasks' = Ended(i)
  /\ UNCHANGED <<connected, llm_client, response_id, clients, received, accepted, delivered>>

\* not llm_client
ClientMissing == llm_client = 0

\* LlmService.draft_response is called: the turn's transcript goes to the
\* agents' history and the stream waits for its first event
StartStream(i, rid) ==
  /\ tasks' = [j \in DOMAIN tasks |->
                 IF j = i
                   THEN [tasks[j] EXCEPT !.pc = "gen", !.response_id = rid,
                                         !.client = llm_client,
                                         !.agent = clients[llm_client].current_agent]
                   ELSE IF tasks[j].pc # "created" /\ tasks[j].response_id < rid
                          THEN [tasks[j] EXCEPT !.newer = TRUE]
                          ELSE tasks[j]]
  /\ ran' = [tasks[i] EXCEPT !.pc = "gen", !.response_id = rid, !.client = llm_client,
                             !.agent = clients[llm_client].current_agent]
  /\ clients' = [clients EXCEPT ![llm_client] = run(@, tasks[i].req.transcript)]
  /\ accepted' = accepted \cup {rid}

\* a variant that answers with a complete fallback response
NotInitialized_Fallback(i) ==
  /\ tasks' = Ended(i)
  /\ ran' = [tasks[i] EXCEPT !.pc = "dropped"]
  /\ sent' = IF connected THEN <<LLMResponse(response_id', <<"sorry">>, TRUE)>> ELSE <<>>
  /\ UNCHANGED <<clients, accepted>>

\* "LLM client not initialized": the handler logs a warning and returns
NotInitialized(i) ==
  /\ tasks' = Ended(i)
  /\ ran' = [tasks[i] EXCEPT !.pc = "dropped"]
  /\ sent' = <<>>
  /\ UNCHANGED <<clients, accepted>>

\* interaction_type in ["response_required", "reminder_required"], up to the
\* first await of the stream
ResponseRequired(i) ==
  /\ Runnable(i)
  /\ TypeIs(i, "response_required") \/ TypeIs(i, "reminder_required")
  /\ response_id' = Get(tasks[i].req.response_id, 0)
  /\ IF ClientMissing
       THEN NotInitialized(i)
       ELSE StartStream(i, response_id') /\ sent' = <<>>
  /\ UNCHANGED <<connected, llm_client, received, delivered>>

\* the next event of draft_response: response_id of the request, complete on
\* the last one
DraftEvent(i, final) ==
  LLMResponse(tasks[i].response_id, IF final THEN <<>> ELSE <<"chunk">>, final)

\* the stream yields its next event and websocket.send_json is called with it
\* (on a closed connection the call raises, which the except clause logs)
SendEvent(i) ==
  /\ i \in DOMAIN tasks
  /\ tasks[i].pc = "gen"
  /\ \E final \in BOOLEAN :
       /\ final \/ tasks[i].n < MaxFrags
       /\ IF connected
            THEN /\ sent' = <<DraftEvent(i, final)>>
                 /\ ran' = [tasks[i] EXCEPT !.pc = "sending", !.n = @ + 1, !.fin = final]
                 /\ tasks' = [tasks EXCEPT ![i] = ran']
                 /\ delivered' = IF final THEN delivered \cup {tasks[i].response_id}
                                 ELSE delivered
            ELSE /\ sent' = <<>>
                 /\ ran' = [tasks[i] EXCEPT !.pc = "failed"]
                 /\ tasks' = Ended(i)
                 /\ delivered' = delivered
  /\ UNCHANGED <<connected, llm_client, response_id, clients, received, accepted>>

\* request_obj.response_id < response_id
Abandon(i) == tasks[i].response_id < response_id

\* send_json has returned: break when a newer response is needed, else ask the
\* stream for its next event (there is none after the complete one)
AfterSend(i) ==
  /\ i \in DOMAIN tasks
  /\ tasks[i].pc = "sending"
  /\ ran' = [tasks[i] EXCEPT !.pc = IF Abandon(i) THEN "abandoned"
                                    ELSE IF tasks[i].fin THEN "done" ELSE "gen"]
  /\ tasks' = IF ran'.pc = "gen" THEN [tasks EXCEPT ![i] = ran'] ELSE Ended(i)
  /\ sent' = <<>>
  /\ UNCHANGED <<connected, llm_client, response_id, clients, received, accepted, delivered>>

\* a variant in which the exception leaves the handler and the connection is
\* closed
StreamError_Closes(i) ==
  /\ i \in DOMAIN tasks
  /\ tasks[i].pc = "gen"
  /\ ran' = [tasks[i] EXCEPT !.pc = "error"]
  /\ tasks' = Ended(i)
  /\ sent' = <<>>
  /\ connected' = FALSE
  /\ UNCHANGED <<llm_client, response_id, clients, received, accepted, delivered>>

\* draft_response raises instead of yielding its next event: the except clause
\* logs the error and the task ends
StreamError(i) ==
  /\ i \in DOMAIN tasks
  /\ tasks[i].pc = "gen"
  /\ ran' = [tasks[i] EXCEPT !.pc = "error"]
  /\ tasks' = Ended(i)
  /\ sent' = <<>>
  /\ UNCHANGED <<connected, llm_client, response_id, clients, received, accepted, delivered>>

\* the stream's agent calls one of its transfer methods: the service's
\* current agent changes and the run goes on with the agent returned
HandOff(i, method) ==
  /\ i \in DOMAIN tasks
  /\ tasks[i].pc = "gen"
  /\ method \in functions(tasks[i].agent) \cap TransferMethods
  /\ LET service == Transfer(method, clients[tasks[i].client])
     IN /\ clients' = [clients EXCEPT ![tasks[i].client] = service]
        /\ tasks' = [tasks EXCEPT ![i].agent = service.current_agent]
  /\ ran' = [tasks[i] EXCEPT !.action = Some(method)]
  /\ sent' = <<>>
  /\ UNCHANGED <<connected, llm_client, response_id, received, accepted, delivered>>

\* the stream's agent calls one of its other functions and goes on with the
\* result
DomainAction(i, function) ==
  /\ i \in DOMAIN tasks
  /\ tasks[i].pc = "gen"
  /\ function \in functions(tasks[i].agent) \ TransferMethods
  /\ ran' = [tasks[i] EXCEPT !.action = Some(function)]
  /\ sent' = <<>>
  /\ UNCHANGED <<connected, llm_client, response_id, clients, tasks, received, accepted,
                 delivered>>

\* AgentService.reset_messages is called on a service
ResetMessages(c) ==
  /\ c \in DOMAIN clients
  /\ clients' = [clients EXCEPT ![c] = reset_messages(@)]
  /\ ran' = [NoTask EXCEPT !.client = c, !.action = Some("reset_messages")]
  /\ sent' = <<>>
  /\ UNCHANGED <<connected, llm_client, response_id, tasks, received, accepted, delivered>>

\* AgentService.reset_agent is called on a service
ResetAgent(c) ==
  /\ c \in DOMAIN clients
  /\ clients' = [clients EXCEPT ![c] = reset_agent(@)]
  /\ ran' = [NoTask EXCEPT !.client = c, !.action = Some("reset_agent")]
  /\ sent' = <<>>
  /\ UNCHANGED <<connected, llm_client, response_id, tasks, received, accepted, delivered>>

\* the peer closes the connection: iter_json ends and the handler returns
Disconnect ==
  /\ connected
  /\ connected' = FALSE
  /\ ran' = NoTask
  /\ sent' = <<>>
  /\ UNCHANGED <<llm_client, response_id, clients, tasks, received, accepted, delivered>>

Next ==
  \/ \E req \in RetellRequest : Receive(req)
  \/ \E i \in 1..MaxEvents : CallDetails(i)
  \/ \E i \in 1..MaxEvents : PingPong(i)
  \/ \E i \in 1..MaxEvents : UpdateOnly(i)
  \/ \E i \in 1..MaxEvents : ResponseRequired(i)
  \/ \E i \in 1..MaxEvents : SendEvent(i)
  \/ \E i \in 1..MaxEvents : AfterSend(i)

\* a variant in which response_id is a global of the module
Own_Global == parked' = [parked EXCEPT !.response_id = response_id']

\* llm_client and response_id are locals of websocket_handler and every
\* LlmService is made by the handler that uses it: a step of one connection's
\* handler or tasks leaves what the other connection has as it is
Own == UNCHANGED parked

\* the handler of a connection calls the store only in a funds transfer
NoStore == UNCHANGED <<db, reply, calls>>

\* the connection stays open
Spec == Init /\ [][Next /\ Own /\ NoStore]_vars

\* the peer may close the connection at any moment
SpecClose == Init /\ [][(Next \/ Disconnect) /\ Own /\ NoStore]_vars

\* the messages of a call in which the agents work: the call's details and
\* two turns, the second with the longer transcript; each turn is answered
\* with function calls and one complete event
Turns ==
  {Event("call_details", Some(KnownNumber), None, None, <<>>),
   Event("response_required", None, None, Some(1), <<Utterance("user", "hi")>>),
   Event("response_required", None, None, Some(2),
         <<Utterance("user", "hi"), Utterance("agent", "hello")>>)}

\* the stream ends its answer with one event, the complete one
SendComplete(i) == SendEvent(i) /\ ran'.fin

NextAgents ==
  \/ \E req \in Turns : Receive(req)
  \/ \E i \in 1..MaxEvents : CallDetails(i)
  \/ \E i \in 1..MaxEvents : ResponseRequired(i)
  \/ \E i \in 1..MaxEvents : SendComplete(i)
  \/ \E i \in 1..MaxEvents : AfterSend(i)
  \/ \E i \in 1..MaxEvents, method \in TransferMethods : HandOff(i, method)
  \/ \E i \in 1..MaxEvents, function \in UNION {functions(a) : a \in Agents} :
       DomainAction(i, function)

\* the streams of a call with their agents' function calls
SpecAgents == Init /\ [][NextAgents /\ Own /\ NoStore]_vars

\* the same, and a stream may raise at any moment
SpecError ==
  Init /\ [][(NextAgents \/ \E i \in 1..MaxEvents : StreamError(i)) /\ Own /\ NoStore]_vars

\* a step of the i-th task
TaskStep(i) ==
  \/ CallDetails(i)
  \/ ResponseRequired(i)
  \/ SendComplete(i)
  \/ AfterSend(i)
  \/ \E method \in TransferMethods : HandOff(i, method)
  \/ \E function \in UNION {functions(a) : a \in Agents} : DomainAction(i, function)

\* the event loop runs every task that is ready
SpecAgentsFair == SpecAgents /\ \A i \in 1..MaxEvents : WF_vars(TaskStep(i) /\ Own /\ NoStore)

NextService ==
  \/ NextAgents
  \/ \E c \in 1..MaxEvents : ResetMessages(c)
  \/ \E c \in 1..MaxEvents : ResetAgent(c)

\* the same, with the service's reset methods called at any moment
SpecService == Init /\ [][NextService /\ Own /\ NoStore]_vars

\* the event loop goes over from the tasks of one connection to those of the
\* other
Switch ==
  /\ connected' = parked.connected
  /\ llm_client' = parked.llm_client
  /\ response_id' = parked.response_id
  /\ clients' = parked.clients
  /\ tasks' = parked.tasks
  /\ received' = parked.received
  /\ ran' = parked.ran
  /\ sent' = parked.sent
  /\ accepted' = parked.accepted
  /\ delivered' = parked.delivered
  /\ parked' = Session(3 - parked.id)

\* a message is read from the connection; MaxEvents bounds the messages of
\* the two connections together
ReceiveCall(req) == Receive(req) /\ received + parked.received < MaxEvents

\* a step of the connection whose handler is running
NextCall ==
  \/ \E req \in Turns : ReceiveCall(req)
  \/ \E i \in 1..MaxEvents : CallDetails(i)
  \/ \E i \in 1..MaxEvents : ResponseRequired(i)
  \/ \E i \in 1..MaxEvents : SendComplete(i)
  \/ \E i \in 1..MaxEvents : AfterSend(i)
  \/ \E i \in 1..MaxEvents, method \in TransferMethods : HandOff(i, method)

\* two calls at once, each on a connection of its own
SpecCalls == Init /\ [][((NextCall /\ Own) \/ Switch) /\ NoStore]_vars

\* --------------------------------------------------------------- the store
\* a call of the store or a request of the API runs no handler of a connection
NoSession ==
  UNCHANGED <<connected, llm_client, response_id, clients, tasks, received, ran, sent,
              accepted, delivered, parked>>

\* the account ids and amounts that callers pass: two accounts of the store
\* and one that is not in it; negative, zero, the whole balance, more than it
AccountArgs == {"ACC001", "ACC002", "ACC404"}

Amounts == {-1, 0, 2, 3}

\* the ids under which a caller of update_payment stores a payment
PaymentIdArgs == {PaymentId(2), PaymentId(3), <<"T", "X", "7">>}

\* a store as it can be when a run starts: balances that are not negative
Stores ==
  {[MOCK_DATABASE EXCEPT !.accounts["ACC001"].balance = b1, !.accounts["ACC002"].balance = b2] :
     b1 \in {0, 2}, b2 \in {0, 2}}

InitStore ==
  /\ InitSession
  /\ db \in Stores
  /\ reply = NoReply
  /\ calls = 0

\* db_service.transfer_funds(from_account, to_account, amount)
TransferFunds(from_account, to_account, amount) ==
  /\ calls < MaxCalls
  /\ LET call == transfer_funds(db, from_account, to_account, amount)
     IN /\ db' = call.store
        /\ reply' = [op |-> "transfer_funds", from_account |-> from_account,
                     to_account |-> to_account, amount |-> amount, value |-> call.value]
  /\ calls' = calls + 1
  /\ NoSession

\* db_service.update_payment(payment_id, payment_data)
UpdatePayment(payment_id, payment_data) ==
  /\ calls < MaxCalls
  /\ db' = update_payment(db, payment_id, payment_data)
  /\ reply' = [op |-> "update_payment", value |-> Some(payment_id)]
  /\ calls' = calls + 1
  /\ NoSession

\* db_service.delete_payment(payment_id) of a payment of the store
DeletePayment(payment_id) ==
  /\ calls < MaxCalls
  /\ payment_id \in DOMAIN db.payments
  /\ db' = delete_payment(db, payment_id)
  /\ reply' = [op |-> "delete_payment", value |-> Some(payment_id)]
  /\ calls' = calls + 1
  /\ NoSession

\* helpers.generate_payment_id()
GeneratePaymentId ==
  /\ calls < MaxCalls
  /\ db' = db
  /\ reply' = [op |-> "generate_payment_id", value |-> Some(generate_payment_id(db))]
  /\ calls' = calls + 1
  /\ NoSession

NextStore ==
  \/ \E f \in AccountArgs, t \in AccountArgs, amount \in Amounts : TransferFunds(f, t, amount)
  \/ \E id \in PaymentIdArgs : UpdatePayment(id, Payment("ACC001", "ACC002", 1, "Pending"))
  \/ \E id \in DOMAIN db.payments : DeletePayment(id)
  \/ GeneratePaymentId

SpecStore == InitStore /\ [][NextStore]_vars

\* the stream's agent calls transfer_funds, which calls the store: with what
\* the store returns the run goes on, and what the store raises ends the
\* stream in the except clause of the handler
FundsTransfer(i, from_account, to_account, amount) ==
  /\ calls < MaxCalls
  /\ i \in DOMAIN tasks
  /\ tasks[i].pc = "gen"
  /\ "transfer_funds" \in functions(tasks[i].agent)
  /\ LET call == transfer_funds(db, from_account, to_account, amount)
     IN /\ db' = call.store
        /\ reply' = [op |-> "transfer_funds", from_account |-> from_account,
                     to_account |-> to_account, amount |-> amount, value |-> call.value]
        /\ IF call.raised
             THEN /\ ran' = [tasks[i] EXCEPT !.pc = "error", !.action = Some("transfer_funds")]
                  /\ tasks' = Ended(i)
             ELSE /\ ran' = [tasks[i] EXCEPT !.action = Some("transfer_funds")]
                  /\ tasks' = tasks
  /\ calls' = calls + 1
  /\ sent' = <<>>
  /\ UNCHANGED <<connected, llm_client, response_id, clients, received, accepted, delivered>>

\* the transfers a caller asks for: the whole balance of an account, or more
FundsAmounts == {2, 3}

NextFunds ==
  \/ NoStore /\ \E req \in Turns : Receive(req)
  \/ NoStore /\ \E i \in 1..MaxEvents : CallDetails(i)
  \/ NoStore /\ \E i \in 1..MaxEvents : ResponseRequired(i)
  \/ NoStore /\ \E i \in 1..MaxEvents : SendComplete(i)
  \/ NoStore /\ \E i \in 1..MaxEvents : AfterSend(i)
  \/ NoStore /\ \E i \in 1..MaxEvents, method \in TransferMethods : HandOff(i, method)
  \/ \E i \in 1..MaxEvents, amount \in FundsAmounts :
       FundsTransfer(i, "ACC001", "ACC002", amount)

\* the streams of a call whose payments agent transfers funds
SpecFunds == Init /\ [][NextFunds /\ Own]_vars

\* ----------------------------------------------------------------- the API
\* what a request gives: the store after it and the status of the response
Response(store, status, detail) == [store |-> store, status |-> status, detail |-> detail]

\* how the endpoint ends once the store has been called
Transferred(call) ==
  IF call.raised THEN Response(call.store, 500, "Transfer failed")
  ELSE IF call.value = None THEN Response(call.store, 500, "Transfer failed")
  ELSE Response(call.store, 200, "Transfer completed successfully")

\* a variant of the endpoint without the test of the amount
api_transfer_funds_AnyAmount(store, from_account, to_account, amount) ==
  IF get_account(store, from_account) = None
  THEN Response(store, 404, "Source account not found")
  ELSE IF get_account(store, to_account) = None
  THEN Response(store, 404, "Destination account not found")
  ELSE IF store.accounts[from_account].balance < amount
  THEN Response(store, 400, "Insufficient funds")
  ELSE Transferred(transfer_funds(store, from_account, to_account, amount))

\* api.payments.transfer_funds, the endpoint POST /payments/transfer
api_transfer_funds(store, from_account, to_account, amount) ==
  IF get_account(store, from_account) = None
  THEN Response(store, 404, "Source account not found")
  ELSE IF get_account(store, to_account) = None
  THEN Response(store, 404, "Destination account not found")
  ELSE IF amount <= 0
  THEN Response(store, 400, "Amount must be positive")
  ELSE IF store.accounts[from_account].balance < amount
  THEN Response(store, 400, "Insufficient funds")
  ELSE Transferred(transfer_funds(store, from_account, to_account, amount))

\* a request POST /payments/transfer; the endpoint has no await, so it runs
\* from its first line to its response in one step of the event loop
PostTransfer(from_account, to_account, amount) ==
  /\ calls < MaxCalls
  /\ LET response == api_transfer_funds(db, from_account, to_account, amount)
     IN /\ db' = response.store
        /\ reply' = [op |-> "POST /payments/transfer", from_account |-> from_account,
                     to_account |-> to_account, amount |-> amount,
                     status |-> response.status, detail |-> response.detail]
  /\ calls' = calls + 1
  /\ NoSession

\* the bodies of the webhook requests: text that is not JSON, or an event
Malformed == "{"

RetellEvents == {"call_started", "call_ended", "call_analyzed", "call_updated"}

\* the try block of handle_webhook: what it returns or the exception it raises
\* and the event whose branch it ran
WebhookTry(body, valid_signature) ==
  IF body = Malformed THEN [raises |-> "JSONDecodeError", status |-> 400, handled |-> None]
  ELSE IF ~valid_signature THEN [raises |-> "HTTPException", status |-> 401, handled |-> None]
  ELSE [raises |-> "", status |-> 200, handled |-> Some(body)]

\* api.retell.handle_webhook: except json.JSONDecodeError, then except Exception,
\* which is the class of HTTPException too
handle_webhook(body, valid_signature) ==
  LET try == WebhookTry(body, valid_signature)
  IN IF try.raises = "JSONDecodeError" THEN [status |-> 400, handled |-> try.handled]
     ELSE IF try.raises # "" THEN [status |-> 500, handled |-> try.handled]
     ELSE [status |-> try.status, handled |-> try.handled]

\* a request POST /webhook
PostWebhook(body, valid_signature) ==
  /\ calls < MaxCalls
  /\ LET response == handle_webhook(body, valid_signature)
     IN reply' = [op |-> "POST /webhook", body |-> body, valid_signature |-> valid_signature,
                  status |-> response.status, handled |-> response.handled]
  /\ db' = db
  /\ calls' = calls + 1
  /\ NoSession

NextApi ==
  \/ \E f \in AccountArgs, t \in AccountArgs, amount \in Amounts : PostTransfer(f, t, amount)
  \/ \E body \in RetellEvents \cup {Malformed}, valid \in BOOLEAN : PostWebhook(body, valid)

SpecApi == InitStore /\ [][NextApi]_vars

\* ------------------------------------------------------------- the claims
\* the last step was the handler of a message of this interaction_type
Handled(type) == ran.req.interaction_type = type

HandledResponse == Handled("response_required") \/ Handled("reminder_required")

\* the last step sent an event of a draft_response stream
StreamSent == ran.pc = "sending" /\ sent # <<>>

\* a draft_response stream is in flight
InFlight == \E j \in DOMAIN tasks : tasks[j].pc \in {"gen", "sending"}

\* C1: once a stream with a higher response_id has been started, a stream that
\* had not yet sent its complete event never sends it
C1_NoStaleFinal == ~(StreamSent /\ sent[1].content_complete /\ ran.newer)

\* C2: every event of a stream has, at the moment it is sent, a response_id not
\* less than the handler's response_id
C2_SentIsCurrent == StreamSent => sent[1].response_id >= response_id

\* C3: no step makes the handler's response_id smaller
C3_Monotonic == [][response_id' >= response_id]_vars

\* C4: no stream is started for a request whose response_id is not greater
\* than every response_id a stream was started for before
C4_NonMonotonicDropped ==
  [][(HandledResponse' /\ ran'.pc = "gen" /\ ran'.n = 0)
       => \A a \in accepted : ran'.response_id > a]_vars

\* C5: the complete event of a response_id is sent by at most one stream
C5_OneFinalPerSequence ==
  [][(StreamSent' /\ sent'[1].content_complete) => ran'.response_id \notin delivered]_vars

\* C6: the handler of a ping_pong message sends exactly one ping_pong message,
\* with the timestamp of the request, whatever else is going on; no other step
\* sends one; and the handler can always run when its turn has come
C6_KeepaliveEcho ==
  /\ Handled("ping_pong") =>
       /\ ran.pc = "done"
       /\ Len(sent) = 1
       /\ sent[1].response_type = "ping_pong"
       /\ sent[1].timestamp = ran.req.timestamp
  /\ (\E k \in DOMAIN sent : sent[k].response_type = "ping_pong") => Handled("ping_pong")
  /\ \A i \in DOMAIN tasks : (Runnable(i) /\ TypeIs(i, "ping_pong")) => ENABLED PingPong(i)

\* a ping_pong was answered while a stream was in flight
C6_Witness ==
  /\ Handled("ping_pong")
  /\ Len(sent) = 1
  /\ sent[1].timestamp = ran.req.timestamp
  /\ InFlight

\* C7: the handler of every call_details message sends exactly one opening
\* response, complete and with response_id 0
C7_AlwaysOpening ==
  Handled("call_details") =>
    /\ Len(sent) = 1
    /\ sent[1].response_type = "response"
    /\ sent[1].response_id = 0
    /\ sent[1].content_complete

\* the caller's number is given and no profile is stored under it
Unresolvable(req) ==
  /\ Get(req.from_number, EmptyNumber) # EmptyNumber
  /\ get_user(FormatNumber(Get(req.from_number, EmptyNumber))) = None

\* C8: the handler of a call_details message whose caller is not found creates
\* the LLM client, without a profile and with the triage agent current, and
\* sends exactly one opening response, built for the anonymous caller
C8_AnonymousOpening ==
  (Handled("call_details") /\ Unresolvable(ran.req)) =>
    /\ ran.pc = "done"
    /\ llm_client # 0
    /\ llm_client = ran.client
    /\ clients[llm_client].user_name = "there"
    /\ clients[llm_client].phone = None
    /\ clients[llm_client].current_agent = "triage"
    /\ clients[llm_client].messages = <<>>
    /\ Len(sent) = 1
    /\ sent[1].response_type = "response"
    /\ sent[1].response_id = 0
    /\ sent[1].content_complete
    /\ sent[1].content = <<"greeting", "there">>

\* an unknown caller was greeted
C8_Witness ==
  /\ Handled("call_details")
  /\ Unresolvable(ran.req)
  /\ ran.pc = "done"
  /\ Len(sent) = 1

\* C9: while no LLM client exists, no stream is started, no response is sent,
\* and the handler of a response_required or reminder_required message ends
\* without sending anything
C9_NoClientDropped ==
  ClientMissing =>
    /\ ~InFlight
    /\ accepted = {}
    /\ \A k \in DOMAIN sent : sent[k].response_type # "response"
    /\ HandledResponse => (ran.pc = "dropped" /\ sent = <<>>)

\* a request was dropped for want of a client, when other messages had been read
C9_Witness ==
  /\ HandledResponse
  /\ ran.pc = "dropped"
  /\ ClientMissing
  /\ received >= 2

\* the utterances of tr are all among those of messages
Contains(messages, tr) ==
  \A k \in DOMAIN tr : \E m \in DOMAIN messages : messages[m] = tr[k]

\* C10: after the handler of an update_only message, the history of the LLM
\* client holds the utterances of the message, and nothing was sent
C10_UpdateAppends ==
  (Handled("update_only") /\ ran.client # 0) =>
    /\ Contains(clients[ran.client].messages, ran.req.transcript)
    /\ sent = <<>>

\* the streams in flight
Streams == {j \in DOMAIN tasks : tasks[j].pc \in {"gen", "sending"}}

\* C11: whatever streams are in flight, the main loop can read the next
\* message of an open connection, and the task of a response_required or
\* reminder_required message can start when its turn has come
C11_ReceiptNeverBlocked ==
  /\ (connected /\ received < MaxEvents) => \A req \in RetellRequest : ENABLED Receive(req)
  /\ \A i \in DOMAIN tasks :
       (Runnable(i) /\ (TypeIs(i, "response_required") \/ TypeIs(i, "reminder_required")))
         => ENABLED ResponseRequired(i)

\* a stream was started while an earlier one, which had already sent an event,
\* was still in flight
C11_Witness ==
  /\ Cardinality(Streams) >= 2
  /\ HandledResponse
  /\ ran.pc = "gen"
  /\ ran.n = 0
  /\ \E j \in Streams : tasks[j].n > 0 /\ tasks[j].response_id # ran.response_id

\* the hand-offs each handler declares
Transitions(agent) ==
  CASE agent = "triage" -> {"accounts", "payments", "applications"}
    [] agent = "accounts" -> {"payments"}
    [] agent = "payments" -> {"triage"}
    [] agent = "applications" -> {"triage"}

\* the last step called this kind of function
Called(kind) == ran.action # None /\ ran.action[1] \in kind

DomainFunctions == UNION {functions(a) : a \in Agents} \ TransferMethods

\* C12: after a stream's agent has called a transfer method, the current agent
\* of its service is in the set of hand-offs declared for the calling agent; and
\* no agent has a transfer method whose target is outside its set
C12_HandOffInDeclaredSet ==
  /\ Called(TransferMethods) =>
       clients[ran.client].current_agent \in Transitions(ran.agent)
  /\ \A a \in Agents : \A m \in functions(a) \cap TransferMethods :
       Transfer(m, AgentService).current_agent \in Transitions(a)

\* the accounts agent has handed off to the payments agent in a turn that
\* started with the triage agent
C12_Witness ==
  /\ Called(TransferMethods)
  /\ ran.agent = "accounts"
  /\ clients[ran.client].current_agent = "payments"
  /\ clients[ran.client].messages # <<>>

\* C13: the current agent of every service is one of the four agents, so
\* get_current_agent_name knows it, and a service starts with the triage agent
C13_OneKnownAgent ==
  /\ \A c \in DOMAIN clients :
       /\ clients[c].current_agent \in Agents
       /\ get_current_agent_name(clients[c]) # "UnknownAgent"
  /\ (Handled("call_details") /\ sent # <<>>) =>
       /\ llm_client = Len(clients)
       /\ clients[llm_client].current_agent = "triage"

\* a second service starts with the triage agent while the first one has
\* another agent current
C13_Witness ==
  /\ Handled("call_details")
  /\ Len(clients) = 2
  /\ clients[1].current_agent \in Agents \ {"triage"}
  /\ clients[2].current_agent = "triage"

\* C15: a function a stream's agent calls is one of the functions of the
\* current agent of the stream's service
C15_ActionOfCurrentAgent ==
  Called(DomainFunctions) => ran.action[1] \in functions(clients[ran.client].current_agent)

\* C14: the streams of a call make finitely many hand-offs: from some moment
\* on no step is a call of a transfer method
C14_HandOffsEnd == <>[](~Called(TransferMethods))

\* a is a prefix of b
IsPrefix(a, b) == Len(a) <= Len(b) /\ SubSeq(b, 1, Len(a)) = a

C17_HandOffFrame ==
  [][(ran'.action # None /\ ran'.action[1] \in TransferMethods) =>
       /\ \A c \in DOMAIN clients :
            [clients'[c] EXCEPT !.current_agent = "any"] =
              [clients[c] EXCEPT !.current_agent = "any"]
       /\ \A c \in DOMAIN clients \ {ran'.client} : clients'[c] = clients[c]
       /\ \E i \in DOMAIN tasks :
            /\ tasks[i].pc = "gen"
            /\ tasks[i].response_id = ran'.response_id
            /\ tasks' = [tasks EXCEPT ![i].agent = clients'[ran'.client].current_agent]
       /\ sent' = <<>>
       /\ <<connected, llm_client, response_id, received, accepted, delivered>>' =
            <<connected, llm_client, response_id, received, accepted, delivered>>]_vars

\* the applications agent has handed the second turn back to the triage agent
C17_Witness ==
  /\ Called({"transfer_back_to_triage"})
  /\ ran.agent = "applications"
  /\ ran.response_id = 2
  /\ clients[ran.client].current_agent = "triage"
  /\ Len(clients[ran.client].messages) >= 2

\* the i-th task is that of a response_required or reminder_required message
\* and its turn has come
NextResponse(i) ==
  Runnable(i) /\ (TypeIs(i, "response_required") \/ TypeIs(i, "reminder_required"))

\* C18: a step in which a stream raises ends the task of that stream and
\* changes nothing else: the connection stays open, the LLM client stays, the
\* other tasks stay as they are; and whether or not a stream has raised, every
\* other stream can send its complete event and the next request starts a
\* stream
C18_ErrorAbortsOnlyItsStream ==
  /\ [](/\ connected
        /\ ran.pc = "error" => (llm_client # 0 /\ sent = <<>>)
        /\ \A i \in DOMAIN tasks : tasks[i].pc = "gen" => ENABLED SendComplete(i)
        /\ \A i \in DOMAIN tasks :
             (NextResponse(i) /\ ~ClientMissing) => ENABLED ResponseRequired(i))
  /\ [][ran'.pc = "error" =>
          /\ \E i \in DOMAIN tasks :
               tasks[i] = [ran' EXCEPT !.pc = "gen"] /\ tasks' = Ended(i)
          /\ <<connected, llm_client, response_id, clients, received, accepted, delivered>>'
               = <<connected, llm_client, response_id, clients, received, accepted, delivered>>
       ]_vars
  /\ [][llm_client # 0 => llm_client' # 0]_vars

\* the stream of response_id 1 has raised while the request with response_id 2
\* waits for its turn
C18_Witness ==
  /\ ran.pc = "error"
  /\ ran.response_id = 1
  /\ \E i \in DOMAIN tasks : NextResponse(i) /\ tasks[i].req.response_id = Some(2)

\* C19: once the connection is closed no stream is run on to its next event:
\* no task of a response_required or reminder_required message calls send_json
\* on the closed connection
C19_NoSendAfterClose == ~connected => ~(HandledResponse /\ ran.pc = "failed")

C21_NothingAfterFinal ==
  /\ []((HandledResponse /\ ran.pc = "done") => ran.fin)
  /\ [][StreamSent' => ran'.response_id \notin delivered]_vars

\* C23: whenever the current agent of a service changes, the new one is in
\* the set of hand-offs declared for the one it replaces
C23_ChangeFollowsEdge ==
  [][\A c \in DOMAIN clients :
       clients'[c].current_agent # clients[c].current_agent =>
         clients'[c].current_agent \in Transitions(clients[c].current_agent)]_vars

\* C24: the handler of a response_required or reminder_required message that
\* finds no LLM client leaves response_id as it was
C24_DroppedLeavesResponseId ==
  [][(HandledResponse' /\ ran'.pc = "dropped") => response_id' = response_id]_vars

\* the last step was a call of DatabaseService.transfer_funds
TransferCalled == reply.op = "transfer_funds"

\* C25: a call of transfer_funds that returns a payment id has changed every
\* balance by the amount taken from it and the amount put on it, so that only
\* the source and the destination differ, and has added one payment, with
\* status Completed, under an id that was no key of the payments before
C25_TransferMovesAndRecords ==
  [][(TransferCalled' /\ reply'.value # None) =>
       LET from_account == reply'.from_account
           to_account == reply'.to_account
           amount == reply'.amount
           payment_id == reply'.value[1]
       IN /\ DOMAIN db'.accounts = DOMAIN db.accounts
          /\ \A id \in DOMAIN db.accounts :
               db'.accounts[id].balance =
                 db.accounts[id].balance - (IF id = from_account THEN amount ELSE 0)
                                         + (IF id = to_account THEN amount ELSE 0)
          /\ payment_id \notin DOMAIN db.payments
          /\ DOMAIN db'.payments = DOMAIN db.payments \cup {payment_id}
          /\ \A id \in DOMAIN db.payments : db'.payments[id] = db.payments[id]
          /\ db'.payments[payment_id] =
               Payment(from_account, to_account, amount, "Completed")]_vars

\* a transfer of a positive amount between two accounts was made after another
\* payment had been stored
C25_Witness ==
  /\ TransferCalled
  /\ reply.value # None
  /\ reply.amount > 0
  /\ reply.from_account # reply.to_account
  /\ Cardinality(DOMAIN db.payments) > 2

\* C26: a call of transfer_funds with an account that is not in the store, or
\* with an amount above the balance of the source, returns None and leaves the
\* store as it was
C26_RefusedLeavesStore ==
  [][(/\ TransferCalled'
      /\ \/ reply'.from_account \notin DOMAIN db.accounts
         \/ reply'.to_account \notin DOMAIN db.accounts
         \/ db.accounts[reply'.from_account].balance < reply'.amount)
       => reply'.value = None /\ db' = db]_vars

\* a transfer between two accounts of the store was refused for its amount
C26_Witness ==
  /\ TransferCalled
  /\ reply.value = None
  /\ reply.from_account \in DOMAIN db.accounts
  /\ reply.to_account \in DOMAIN db.accounts
  /\ db.accounts[reply.from_account].balance < reply.amount

\* C27: no balance of the store is negative
C27_BalancesNotNegative == \A id \in DOMAIN db.accounts : db.accounts[id].balance >= 0

\* C28: the id that helpers.generate_payment_id returns is no key of the payments
C28_GeneratedIdIsNew ==
  reply.op = "generate_payment_id" => reply.value[1] \notin DOMAIN db.payments

\* C29: a webhook request with a body that is JSON and a signature that does
\* not verify is answered with status 401, and no event of it is handled
C29_BadSignatureIs401 ==
  (reply.op = "POST /webhook" /\ reply.body # Malformed /\ ~reply.valid_signature)
    => reply.status = 401 /\ reply.handled = None

\* the status the claim gives a transfer request, from its tests in their order
C30_Status(store, from_account, to_account, amount) ==
  IF from_account \notin DOMAIN store.accounts THEN 404
  ELSE IF to_account \notin DOMAIN store.accounts THEN 404
  ELSE IF amount <= 0 THEN 400
  ELSE IF store.accounts[from_account].balance < amount THEN 400
  ELSE 200

InsufficientFunds ==
  /\ ran.action = Some("transfer_funds")
  /\ TransferCalled
  /\ reply.value = None
  /\ reply.from_account \in DOMAIN db.accounts
  /\ reply.to_account \in DOMAIN db.accounts
  /\ db.accounts[reply.from_account].balance < reply.amount

====
